---- MODULE Spec2Model ----
(***************************************************************************)
(* Model of src/app/page.tsx: the generate() handler of the slideshow      *)
(* recorder, its frame callback tick(), the MediaRecorder callbacks, the   *)
(* fade computation and wrapText.                                          *)
(*                                                                         *)
(* Units.  Times are integer milliseconds (performance.now() readings on a *)
(* 1 ms grid).  Opacity is carried as its numerator over FADE_MS, so       *)
(* alpha = alphaNum / FADE_MS and alpha = 1 is alphaNum = FADE_MS.  Blob   *)
(* and chunk sizes are abstract byte units.                                *)
(*                                                                         *)
(* Environment.  generate() is an async function without await, so one     *)
(* call is one step; what each browser call does (returns null, throws) is *)
(* an input of the step.  The MediaRecorder encodes every painted frame,   *)
(* hands over what it holds at each timeslice, and after recorder.stop()   *)
(* fires a last dataavailable followed by stop, in one task.               *)
(***************************************************************************)
EXTENDS Integers, Sequences, FiniteSets, TLC

\* ------------------------------------------------------------------------
\* Program constants
\* ------------------------------------------------------------------------
NUM_SLIDES == 5
FPS == 30
SECONDS_PER_SLIDE == 4
FADE_MS == 600
MS_PER_SEC == 1000

SLIDE_MS == SECONDS_PER_SLIDE * MS_PER_SEC

\* totalFrames = SLIDES.length * SECONDS_PER_SLIDE * FPS
totalFrames == NUM_SLIDES * SECONDS_PER_SLIDE * FPS

\* ------------------------------------------------------------------------
\* Bounds of the model
\* ------------------------------------------------------------------------
\* largest elapsed time (ms) a frame callback reads in the lifecycle model
MaxElapsedMs == 25000
\* timeslice dataavailable events delivered per run
MaxDataEvents == 1
\* bytes the recorder holds between two flushes
MaxBuffered == 1
\* last grid point (ms) of the fade specification
MaxGridMs == 21000
\* wrapText inputs
MaxWords == 3
MaxWordWidth == 3
MaxLineWidth == 5
MaxSpaceWidth == 1

NULL == "null"
\* video === null; a generated video is the one-element sequence holding it
NoVideo == <<>>

Min(a, b) == IF a < b THEN a ELSE b
Max(a, b) == IF a > b THEN a ELSE b

RECURSIVE SumSeq(_)
SumSeq(s) == IF s = <<>> THEN 0 ELSE Head(s) + SumSeq(Tail(s))

VARIABLES
  \* React state of Page
  isGenerating, progress, video, error,
  \* closure of the current generate() call
  tracks, mimeType, chunks, frameIndex, rafPending,
  \* the MediaRecorder: its state and the bytes it has encoded but not flushed
  recState, recBuffered, dataEvents,
  \* what tick last computed and handed to drawSlide
  elapsedMs, slideIndex, slideLocalT, alphaNum,
  \* history of the current run (observations, not program state)
  phase, ticks, startCalls, stopCalls, setVideoCalls, progressAtStart,
  audioThrew, noneSupported, failedPre, othersOk,
  \* wrapText: the widths of the words of its text, the width of ' ', maxWidth,
  \* and what it passed to fillText
  wWords, wSpace, wMaxWidth, wEmitted, wDone

uiVars == <<isGenerating, progress, video, error>>
runVars == <<tracks, mimeType, chunks, frameIndex, rafPending>>
recVars == <<recState, recBuffered, dataEvents>>
frameVars == <<elapsedMs, slideIndex, slideLocalT, alphaNum>>
histVars == <<phase, ticks, startCalls, stopCalls, setVideoCalls, progressAtStart,
              audioThrew, noneSupported, failedPre, othersOk>>
wrapVars == <<wWords, wSpace, wMaxWidth, wEmitted, wDone>>
vars == <<uiVars, runVars, recVars, frameVars, histVars, wrapVars>>

\* ------------------------------------------------------------------------
\* tick: slide selection and fade alpha (pure)
\* ------------------------------------------------------------------------
\* slideIndex = Math.min(SLIDES.length - 1, Math.floor(elapsedSec / SECONDS_PER_SLIDE))
SlideIndexOf(e) == Min(NUM_SLIDES - 1, e \div SLIDE_MS)

\* slideLocalT = elapsedSec - slideIndex * SECONDS_PER_SLIDE
SlideLocalTOf(e) == e - SlideIndexOf(e) * SLIDE_MS

\* the fade alpha without the Math.max(0, ...) of the fade-out branch
AlphaNumNoClamp(t) ==
  IF t < FADE_MS THEN t
  ELSE IF t > SLIDE_MS - FADE_MS THEN SLIDE_MS - t
  ELSE FADE_MS

\* alpha as a numerator over FADE_MS: t / FADE (fade in),
\* Math.max(0, (SECONDS_PER_SLIDE - t) / FADE) (fade out), 1.0 otherwise
AlphaNumOf(t) ==
  IF t < FADE_MS THEN t
  ELSE IF t > SLIDE_MS - FADE_MS THEN Max(0, SLIDE_MS - t)
  ELSE FADE_MS

\* Math.round of the exact quotient num / den (ties go up)
RoundHalfUp(num, den) == (2 * num + den) \div (2 * den)

\* Frame counts where the IEEE double (frameIndex / totalFrames) * 100 falls just
\* below a tie of the exact quotient (14.499.., 28.499.., 56.499.., 57.499..),
\* so that Math.round goes down where exact arithmetic would go up.
FloatBelowTie == {87, 171, 339, 345}

\* Math.round((frameIndex / totalFrames) * 100)
RoundPct(f) ==
  IF f \in FloatBelowTie
  THEN RoundHalfUp(100 * f, totalFrames) - 1
  ELSE RoundHalfUp(100 * f, totalFrames)

\* Math.min(100, Math.round((frameIndex / totalFrames) * 100))
ProgressPct(f) == Min(100, RoundPct(f))

\* the continuation test written with <= in place of <
MoreFramesOffByOne(f) == f <= totalFrames

\* if (frameIndex < totalFrames) requestAnimationFrame(tick) else recorder.stop()
MoreFrames(f) == f < totalFrames

\* performance.now() advances between two frame callbacks by one display frame
\* or by a stall longer than a slide
FrameDeltas == {16, 5000}

\* ------------------------------------------------------------------------
\* generate: audio setup, stream composition, codec choice (pure)
\* ------------------------------------------------------------------------
\* the calls of the audio try block, in order
AudioSteps == <<"AudioContext", "createMediaStreamDestination", "graph", "schedule", "start">>
AudioOutcomes == {"none"} \cup {AudioSteps[i] : i \in 1..Len(AudioSteps)}

\* audioDest when control leaves the try body: it is assigned by the second call
AudioDestInTry(throwAt) ==
  IF throwAt \in {"AudioContext", "createMediaStreamDestination"} THEN NULL ELSE "dest"

\* a catch block that leaves audioDest as the try body left it
AudioCatchKeepsDest(audioDest) == audioDest

\* catch (e) { audioDest = null; }
AudioCatch(audioDest) == NULL

AudioSetup(throwAt) ==
  IF throwAt = "none" THEN AudioDestInTry(throwAt) ELSE AudioCatch(AudioDestInTry(throwAt))

\* tracks = [...canvasStream.getVideoTracks()]; if (audioDest) tracks.push(...audio tracks)
ComposeTracks(audioDest) ==
  IF audioDest # NULL THEN {"video", "audio"} ELSE {"video"}

NoMime == [essence |-> "", codecs |-> ""]
WebmDefault == [essence |-> "video/webm", codecs |-> ""]
mimeCandidates ==
  << [essence |-> "video/webm", codecs |-> "vp9,opus"],
     [essence |-> "video/webm", codecs |-> "vp8,opus"],
     [essence |-> "video/webm", codecs |-> ""] >>

\* MediaRecorder.isTypeSupported answers per candidate: the set of supported indices
SupportOutcomes == SUBSET (1..Len(mimeCandidates))

\* the codec choice falling back to 'video/webm' in place of ''
FindMimeDefaultsWebm(supported) ==
  IF supported = {} THEN WebmDefault
  ELSE mimeCandidates[CHOOSE i \in supported : \A j \in supported : i <= j]

\* mimeCandidates.find((m) => MediaRecorder.isTypeSupported(m)) || ''
FindMime(supported) ==
  IF supported = {} THEN NoMime
  ELSE mimeCandidates[CHOOSE i \in supported : \A j \in supported : i <= j]

\* the Blob typed with mimeType alone, without || 'video/webm'
BlobTypeNoDefault(m) == m

\* new Blob(chunks, { type: mimeType || 'video/webm' })
BlobType(m) == IF m = NoMime THEN WebmDefault ELSE m

\* if (ev.data && ev.data.size > 0) chunks.push(ev.data)
PushChunk(cs, size) == IF size > 0 THEN Append(cs, size) ELSE cs

\* blob.size
BlobSize(cs) == SumSeq(cs)

\* ------------------------------------------------------------------------
\* generate(): one synchronous pass (the async function has no await)
\* ------------------------------------------------------------------------
\* What the external collaborators do during one call of generate()
GenerateInputs ==
  [ canvas        : BOOLEAN,        \* canvasRef.current is non-null
    ctx           : BOOLEAN,        \* getContext('2d') is non-null
    audioThrowAt  : AudioOutcomes,  \* the audio call that throws, if any
    captureThrows : BOOLEAN,        \* captureStream / new MediaStream throws
    queryThrows   : BOOLEAN,        \* MediaRecorder.isTypeSupported throws
    supported     : SupportOutcomes,
    ctorThrows    : BOOLEAN,        \* new MediaRecorder throws
    startThrows   : BOOLEAN ]       \* recorder.start throws

\* closure and recorder when no recorder was started
NoRun ==
  [ tracks |-> {}, mimeType |-> NoMime, rafPending |-> FALSE,
    recState |-> "none", startCalls |-> 0 ]

\* an early return that sets the error but omits setIsGenerating(false)
FailedKeepsFlag(msg) ==
  [ isGenerating |-> TRUE, error |-> msg, phase |-> "failed" ] @@ NoRun

\* setError(msg); setIsGenerating(false); return;
Failed(msg) ==
  [ isGenerating |-> FALSE, error |-> msg, phase |-> "failed" ] @@ NoRun

\* an exception leaves generate(): the promise rejects, no handler resets state
Threw(afterCtor, started) ==
  [ isGenerating |-> TRUE, error |-> NULL, phase |-> "threw",
    tracks |-> {}, mimeType |-> NoMime, rafPending |-> FALSE,
    recState |-> IF afterCtor THEN "inactive" ELSE "none",
    startCalls |-> IF started THEN 1 ELSE 0 ]

\* recorder.start(250); ...; requestAnimationFrame(tick)
Started(tr, mt) ==
  [ isGenerating |-> TRUE, error |-> NULL, phase |-> "running",
    tracks |-> tr, mimeType |-> mt, rafPending |-> TRUE,
    recState |-> "recording", startCalls |-> 1 ]

GenerateBody(in) ==
  IF ~in.canvas THEN Failed("Canvas unavailable")
  ELSE IF ~in.ctx THEN Failed("Canvas 2D context unavailable")
  ELSE LET audioDest == AudioSetup(in.audioThrowAt) IN
    IF in.captureThrows THEN Threw(FALSE, FALSE)
    ELSE LET tr == ComposeTracks(audioDest) IN
      IF in.queryThrows THEN Threw(FALSE, FALSE)
      ELSE LET mt == FindMime(in.supported) IN
        IF in.ctorThrows THEN Failed("MediaRecorder not supported in this browser.")
        ELSE IF in.startThrows THEN Threw(TRUE, TRUE)
        ELSE Started(tr, mt)

\* which calls of generate() the inputs let it reach
ReachesAudio(in) == in.canvas /\ in.ctx
ReachesQuery(in) == ReachesAudio(in) /\ ~in.captureThrows
ReachesCtor(in) == ReachesQuery(in) /\ ~in.queryThrows

\* every collaborator other than audio does its part
OthersOk(in) ==
  /\ in.canvas /\ in.ctx /\ ~in.captureThrows /\ ~in.queryThrows
  /\ ~in.ctorThrows /\ ~in.startThrows

\* the precondition of the run that is not met, if any
FailedPreOf(in) ==
  IF ~in.canvas THEN "canvas"
  ELSE IF ~in.ctx THEN "ctx"
  ELSE IF ReachesCtor(in) /\ in.ctorThrows THEN "recorder"
  ELSE "none"

\* The button is disabled while isGenerating, so generate() starts only when idle.
Generate ==
  /\ ~isGenerating
  /\ \E in \in GenerateInputs :
       LET r == GenerateBody(in) IN
         /\ isGenerating' = r.isGenerating
         /\ error' = r.error
         /\ video' = NoVideo
         /\ progress' = progress
         /\ tracks' = r.tracks
         /\ mimeType' = r.mimeType
         /\ chunks' = <<>>
         /\ frameIndex' = 0
         /\ rafPending' = r.rafPending
         /\ recState' = r.recState
         /\ recBuffered' = 0
         /\ dataEvents' = 0
         /\ elapsedMs' = 0
         /\ slideIndex' = 0
         /\ slideLocalT' = 0
         /\ alphaNum' = 0
         /\ phase' = r.phase
         /\ ticks' = 0
         /\ startCalls' = r.startCalls
         /\ stopCalls' = 0
         /\ setVideoCalls' = 0
         /\ progressAtStart' = progress
         /\ audioThrew' = (ReachesAudio(in) /\ in.audioThrowAt # "none")
         /\ noneSupported' = (ReachesCtor(in) /\ in.supported = {})
         /\ failedPre' = FailedPreOf(in)
         /\ othersOk' = OthersOk(in)
  /\ UNCHANGED wrapVars

\* ------------------------------------------------------------------------
\* tick: one animation-frame callback
\* ------------------------------------------------------------------------
Tick ==
  /\ rafPending
  /\ \E d \in FrameDeltas :
       /\ elapsedMs + d <= MaxElapsedMs
       /\ elapsedMs' = elapsedMs + d
  /\ slideIndex' = SlideIndexOf(elapsedMs')
  /\ slideLocalT' = SlideLocalTOf(elapsedMs')
  /\ alphaNum' = AlphaNumOf(slideLocalT')
  \* drawSlide paints the canvas; the captured frame reaches the recorder
  /\ recBuffered' = IF recState = "recording" THEN Min(MaxBuffered, recBuffered + 1)
                    ELSE recBuffered
  /\ frameIndex' = frameIndex + 1
  /\ progress' = ProgressPct(frameIndex')
  /\ ticks' = ticks + 1
  /\ IF MoreFrames(frameIndex')
     THEN /\ rafPending' = TRUE
          /\ UNCHANGED <<recState, stopCalls>>
     ELSE /\ rafPending' = FALSE
          /\ recState' = "stopping"
          /\ stopCalls' = stopCalls + 1
  /\ UNCHANGED <<isGenerating, video, error, tracks, mimeType, chunks, dataEvents,
                 phase, startCalls, setVideoCalls, progressAtStart, audioThrew,
                 noneSupported, failedPre, othersOk, wrapVars>>

\* ------------------------------------------------------------------------
\* MediaRecorder events
\* ------------------------------------------------------------------------
\* A timeslice has passed: dataavailable with what was encoded since the last one
DataAvailable ==
  /\ recState = "recording"
  /\ dataEvents < MaxDataEvents
  /\ dataEvents' = dataEvents + 1
  /\ chunks' = PushChunk(chunks, recBuffered)
  /\ recBuffered' = 0
  /\ UNCHANGED <<uiVars, tracks, mimeType, frameIndex, rafPending, recState,
                 frameVars, histVars, wrapVars>>

\* The task recorder.stop() queued: a last dataavailable, then the stop event
StopTask ==
  /\ recState = "stopping"
  /\ LET final == PushChunk(chunks, recBuffered) IN
       /\ chunks' = final
       /\ video' = << [blobType |-> BlobType(mimeType), sizeBytes |-> BlobSize(final)] >>
  /\ recBuffered' = 0
  /\ recState' = "inactive"
  /\ isGenerating' = FALSE
  /\ progress' = 100
  /\ setVideoCalls' = setVideoCalls + 1
  /\ phase' = "complete"
  /\ UNCHANGED <<error, tracks, mimeType, frameIndex, rafPending, dataEvents,
                 frameVars, ticks, startCalls, stopCalls, progressAtStart,
                 audioThrew, noneSupported, failedPre, othersOk, wrapVars>>

WrapIdle ==
  /\ wWords = <<>> /\ wSpace = 0 /\ wMaxWidth = 0 /\ wEmitted = <<>> /\ wDone = FALSE

\* the state after the first render: useState(false), useState(0), useState(null)
PageMounted ==
  /\ isGenerating = FALSE /\ progress = 0 /\ video = NoVideo /\ error = NULL
  /\ tracks = {} /\ mimeType = NoMime /\ chunks = <<>> /\ frameIndex = 0
  /\ rafPending = FALSE
  /\ recState = "none" /\ recBuffered = 0 /\ dataEvents = 0
  /\ elapsedMs = 0 /\ slideIndex = 0 /\ slideLocalT = 0 /\ alphaNum = 0
  /\ phase = "idle" /\ ticks = 0 /\ startCalls = 0 /\ stopCalls = 0
  /\ setVideoCalls = 0 /\ progressAtStart = 0
  /\ audioThrew = FALSE /\ noneSupported = FALSE /\ failedPre = "none"
  /\ othersOk = FALSE

Init ==
  /\ PageMounted
  /\ WrapIdle

Next == Generate \/ Tick \/ DataAvailable \/ StopTask

Spec == Init /\ [][Next]_vars

\* ------------------------------------------------------------------------
\* The fade computation on a 1 ms grid: tick's arithmetic for every clock reading
\* ------------------------------------------------------------------------
FadeStep ==
  /\ elapsedMs < MaxGridMs
  /\ elapsedMs' = elapsedMs + 1
  /\ slideIndex' = SlideIndexOf(elapsedMs')
  /\ slideLocalT' = SlideLocalTOf(elapsedMs')
  /\ alphaNum' = AlphaNumOf(slideLocalT')
  /\ UNCHANGED <<uiVars, runVars, recVars, histVars, wrapVars>>

FadeSpec == Init /\ [][FadeStep]_vars

\* ------------------------------------------------------------------------
\* wrapText
\* ------------------------------------------------------------------------
\* A line is the sequence of the indices of its words; as a string each word is
\* followed by one ' ' (line + words[n] + ' ').
\* ctx.measureText(line).width: the advance widths of the words and their spaces
MeasureText(words, space, line) ==
  SumSeq([k \in 1..Len(line) |-> words[line[k]] + space])

\* the loop body measuring words[n] alone in place of testLine
WrapStepMeasuresWord(words, space, maxWidth, n, st) ==
  LET testLine == Append(st.line, n)
      testWidth == MeasureText(words, space, <<n>>)
  IN IF testWidth > maxWidth /\ n > 1
     THEN [ line |-> <<n>>,
            row |-> st.row + 1,
            out |-> Append(st.out, [line |-> st.line, row |-> st.row]) ]
     ELSE [ line |-> testLine, row |-> st.row, out |-> st.out ]

\* the body of the for loop, for the n-th word (n counts from 1; the code's n > 0)
WrapStep(words, space, maxWidth, n, st) ==
  LET testLine == Append(st.line, n)
      testWidth == MeasureText(words, space, testLine)
  IN IF testWidth > maxWidth /\ n > 1
     THEN [ line |-> <<n>>,
            row |-> st.row + 1,
            out |-> Append(st.out, [line |-> st.line, row |-> st.row]) ]
     ELSE [ line |-> testLine, row |-> st.row, out |-> st.out ]

RECURSIVE WrapLoop(_, _, _, _, _)
WrapLoop(words, space, maxWidth, n, st) ==
  IF n > Len(words)
  THEN Append(st.out, [line |-> st.line, row |-> st.row])
  ELSE WrapLoop(words, space, maxWidth, n + 1, WrapStep(words, space, maxWidth, n, st))

\* the calls of fillText, in order: the line and its row (offsetY - y) / lineHeight
WrapText(words, space, maxWidth) ==
  WrapLoop(words, space, maxWidth, 1, [line |-> <<>>, row |-> 0, out |-> <<>>])

\* text.split(' ') yields at least one word; an empty word has width 0.
\* maxWidth is positive (drawSlide passes CANVAS_WIDTH - marginX * 2).
WrapInputs ==
  UNION { [1..n -> 0..MaxWordWidth] : n \in 1..MaxWords }

WrapInit ==
  /\ PageMounted
  /\ wWords \in WrapInputs
  /\ wSpace \in 0..MaxSpaceWidth
  /\ wMaxWidth \in 1..MaxLineWidth
  /\ wEmitted = <<>>
  /\ wDone = FALSE

WrapCall ==
  /\ ~wDone
  /\ wEmitted' = WrapText(wWords, wSpace, wMaxWidth)
  /\ wDone' = TRUE
  /\ UNCHANGED <<uiVars, runVars, recVars, frameVars, histVars, wWords, wSpace, wMaxWidth>>

WrapSpec == WrapInit /\ [][WrapCall]_vars

\* ========================================================================
\* Claims
\* ========================================================================

\* C1 (as claimed; fails).  Whatever the collaborators do, isGenerating is never
\* left true without a pending callback that can reset it: while it is true a
\* frame callback is scheduled or the recorder's stop task is queued.
C1_NeverStuckGenerating ==
  isGenerating => (rafPending \/ recState = "stopping")

\* C2.  In a run that got its canvas, context and recorder, no artifact exists
\* before the stop event; once the frame budget is spent and the stop event has
\* fired, setVideo has been called exactly once with a value whose MIME type is
\* video/webm and whose size is nonzero, and isGenerating is false.
C2_OneArtifact ==
  /\ phase = "running" => (setVideoCalls = 0 /\ video = NoVideo)
  /\ phase = "complete" =>
       /\ ticks = totalFrames
       /\ setVideoCalls = 1
       /\ Len(video) = 1
       /\ video[1].blobType.essence = "video/webm"
       /\ video[1].sizeBytes > 0
       /\ ~isGenerating

C2_Witness ==
  /\ phase = "complete" /\ othersOk /\ Len(video) = 1
  /\ mimeType = mimeCandidates[1]

\* what "fails immediately" means: nothing scheduled, nothing produced, an error
\* shown, the flag reset
FailedImmediately ==
  /\ phase = "failed"
  /\ ~rafPending /\ ticks = 0 /\ startCalls = 0
  /\ progress = progressAtStart
  /\ video = NoVideo
  /\ error # NULL
  /\ ~isGenerating

\* C3 (as claimed; fails).  If isTypeSupported is false for every candidate,
\* generate() fails immediately.
C3_NoSupportFails ==
  noneSupported => FailedImmediately

\* C3 (amended).  If isTypeSupported is false for every candidate, generate()
\* constructs the recorder without a mimeType; it fails immediately exactly when
\* that constructor throws, and a run that proceeds records with no mimeType and
\* labels its artifact video/webm.
C3_NoSupportFallsBack ==
  noneSupported =>
    /\ (failedPre = "recorder") => FailedImmediately
    /\ (failedPre = "none") => phase # "failed"
    /\ phase \in {"running", "complete"} => mimeType = NoMime
    /\ phase = "complete" => (Len(video) = 1 /\ video[1].blobType = WebmDefault)

C3_Witness ==
  noneSupported /\ failedPre = "recorder" /\ phase = "failed" /\ error # NULL

\* C4.  When a call of the audio block throws and every other collaborator does
\* its part, generate() does not fail: no error is set, the stream holds the
\* video track only, the run stays in progress with a callback pending until the
\* frame budget is spent, and it completes with an artifact as a run with audio
\* does.
C4_AudioSoftFail ==
  (audioThrew /\ othersOk) =>
    /\ error = NULL
    /\ tracks = {"video"}
    /\ phase \in {"running", "complete"}
    /\ phase = "running" =>
         (isGenerating /\ ticks <= totalFrames /\ (rafPending \/ recState = "stopping"))
    /\ phase = "complete" =>
         /\ ticks = totalFrames
         /\ setVideoCalls = 1
         /\ Len(video) = 1
         /\ video[1].blobType.essence = "video/webm"
         /\ video[1].sizeBytes > 0
         /\ ~isGenerating

C4_Witness ==
  audioThrew /\ othersOk /\ phase = "complete" /\ tracks = {"video"}

\* C5 (as claimed; fails).  While a run is in progress and frameIndex is below
\* totalFrames, the progress value is below 100 (this covers the value at the
\* start of the run, where frameIndex is 0).
C5_ProgressBelow100 ==
  (phase = "running" /\ frameIndex < totalFrames) => progress < 100

\* C6.  A precondition that is not met (canvas, 2D context, recorder
\* construction) ends generate() in Failed within the call, and in Failed the
\* error is set, isGenerating is false, video is null, progress is unchanged and
\* neither recorder.start nor a frame callback was invoked.
C6_PreconditionFails ==
  /\ (failedPre # "none") => phase = "failed"
  /\ (phase = "failed") =>
       /\ failedPre # "none"
       /\ FailedImmediately
       /\ recState = "none"
       /\ stopCalls = 0 /\ setVideoCalls = 0

C6_Witness ==
  phase = "failed" /\ failedPre = "ctx" /\ progressAtStart = 100

\* C7 (as claimed; fails).  At every frame callback the slide index is in
\* [0, slide count) and the intra-slide time is in [0, SECONDS_PER_SLIDE).
C7_SlideCoordsInRange ==
  (ticks > 0) =>
    /\ slideIndex \in 0..(NUM_SLIDES - 1)
    /\ slideLocalT \in 0..(SLIDE_MS - 1)

\* C8.  On the millisecond grid the opacity is in [0,1]; it is 0 at intra-slide
\* time 0, 1 on [FADE, SECONDS_PER_SLIDE - FADE], 0 from the end of the last
\* slide on; between two neighbouring grid points of the same slide it rises by
\* 1/FADE per unit inside the fade-in window, falls by 1/FADE per unit inside the
\* fade-out window, and nowhere jumps by more than that.
C8_OpacityBounds ==
  /\ alphaNum \in 0..FADE_MS
  /\ (slideLocalT = 0) => alphaNum = 0
  /\ (slideLocalT \in FADE_MS..(SLIDE_MS - FADE_MS)) => alphaNum = FADE_MS
  /\ (elapsedMs >= NUM_SLIDES * SLIDE_MS) => alphaNum = 0

C8_OpacityRamp ==
  /\ (alphaNum' - alphaNum) \in {-1, 0, 1}
  /\ (slideIndex' = slideIndex /\ slideLocalT' <= FADE_MS) => alphaNum' = alphaNum + 1
  /\ (slideIndex' = slideIndex /\ slideLocalT >= SLIDE_MS - FADE_MS /\ slideLocalT' <= SLIDE_MS)
       => alphaNum' = alphaNum - 1

C8_Opacity == [](C8_OpacityBounds) /\ [][C8_OpacityRamp]_vars

C8_Witness ==
  elapsedMs = NUM_SLIDES * SLIDE_MS + 1 /\ slideLocalT > SLIDE_MS /\ alphaNum = 0

\* the words of the emitted lines, in order
RECURSIVE ConcatLines(_)
ConcatLines(out) ==
  IF out = <<>> THEN <<>> ELSE Head(out).line \o ConcatLines(Tail(out))

EveryWordOnceInOrder ==
  ConcatLines(wEmitted) = [k \in 1..Len(wWords) |-> k]

\* C9 (as claimed; fails).  No emitted line measures more than maxWidth, except
\* a line of a single word that by itself is wider than maxWidth; the lines hold
\* every word once, in order.
C9_LinesFit ==
  wDone =>
    /\ \A k \in 1..Len(wEmitted) :
         MeasureText(wWords, wSpace, wEmitted[k].line) > wMaxWidth =>
           /\ Len(wEmitted[k].line) = 1
           /\ wWords[wEmitted[k].line[1]] > wMaxWidth
    /\ EveryWordOnceInOrder

\* C9 (amended).  No emitted line measures more than maxWidth, except a line of
\* a single word (which, with the space the code appends to it, is wider than
\* maxWidth); the lines hold every word once, in order; breaking is greedy (the
\* first word of a line did not fit on the line before it); and the lines are
\* drawn on consecutive rows.
C9_LinesFitButSingleWord ==
  wDone =>
    /\ \A k \in 1..Len(wEmitted) :
         /\ MeasureText(wWords, wSpace, wEmitted[k].line) > wMaxWidth =>
              Len(wEmitted[k].line) = 1
         /\ wEmitted[k].row = k - 1
         /\ Len(wEmitted[k].line) >= 1
    /\ \A k \in 1..(Len(wEmitted) - 1) :
         MeasureText(wWords, wSpace, Append(wEmitted[k].line, Head(wEmitted[k + 1].line)))
           > wMaxWidth
    /\ EveryWordOnceInOrder

C9_Witness ==
  /\ wDone /\ Len(wEmitted) = 2 /\ Len(wEmitted[1].line) = 2
  /\ MeasureText(wWords, wSpace, wEmitted[2].line) > wMaxWidth
  /\ wWords[wEmitted[2].line[1]] <= wMaxWidth

\* C10.  The frame callback runs as often as frameIndex counts and never more
\* than totalFrames times, whatever the clock reads; recorder.stop() is called
\* once, in the callback that brings frameIndex to totalFrames and not before;
\* until then the next callback is scheduled and afterwards none is; a completed
\* run has run exactly totalFrames callbacks.
C10_FrameBudget ==
  /\ ticks = frameIndex
  /\ ticks <= totalFrames
  /\ stopCalls = (IF startCalls = 1 /\ ticks = totalFrames THEN 1 ELSE 0)
  /\ (phase = "running" /\ ticks < totalFrames) => (rafPending /\ recState = "recording")
  /\ (stopCalls = 1) => ~rafPending
  /\ (phase = "complete") => ticks = totalFrames

C10_Witness ==
  /\ phase = "complete" /\ stopCalls = 1 /\ ticks = totalFrames
  /\ elapsedMs > NUM_SLIDES * SLIDE_MS

====
